---- MODULE Spec2Model ----
(***************************************************************************)
(* Model of cleanup_global_env.py: one run of main() under the __main__    *)
(* guard, with the package lister, the manifest, the backup file, the      *)
(* prompts and the uninstaller as the environment.                         *)
(***************************************************************************)
EXTENDS Integers, FiniteSets, Sequences, TLC

(* ------------------------------ bounds --------------------------------- *)
\* Largest number of packages an environment's lister reports.
MaxInstalled == 3
\* Largest number of names in requirements.txt.
MaxDeclared == 2

(* --------------------------- program constants ------------------------- *)
ESSENTIAL_TOOLS ==
    {"jupyter", "jupyterlab", "ipython", "ipykernel", "notebook",
     "pip", "setuptools", "wheel", "pipx", "black", "pytest",
     "flake8", "mypy", "autopep8"}

CORE_PACKAGES == {"pip", "setuptools", "wheel"}

(* ------------------------- environment alphabets ----------------------- *)
\* Names as the lister and the manifest spell them (display case).
RawNames == {"pip", "Black", "Flask", "numpy"}

\* What a user can type at a prompt.
Responses == {"y", "Y", "n", "", "yes", "YES"}

\* How a lister subprocess can end: a JSON list of {name, version}; a
\* non-zero exit (CalledProcessError); output json.loads rejects
\* (JSONDecodeError); JSON that parses but is not a list of records with a
\* 'name' (TypeError/KeyError, caught by neither handler of get_packages).
ListerOutcomes == {"ok", "nonzero", "unparseable", "badshape"}

\* str.lower() over the strings of the model.
Lower(s) ==
    CASE s = "Black" -> "black"
      [] s = "Flask" -> "flask"
      [] s = "Y"     -> "y"
      [] s = "YES"   -> "yes"
      [] OTHER       -> s

LowerAll(S) == {Lower(s) : s \in S}

UpTo(S, n) == {T \in SUBSET S : Cardinality(T) <= n}

(* ------------------------------ state ---------------------------------- *)
VARIABLES
    pc,               \* position in main()
    installed,        \* the global environment itself (display names)
    venv_packages,    \* main: venv_packages (dict keys)
    global_packages,  \* main: global_packages (dict keys)
    requirements,     \* main: requirements
    safe_to_remove,   \* main: safe_to_remove
    keep,             \* main: keep
    response,         \* main: response (both y/N prompts assign it)
    final_confirm,    \* main: final_confirm
    lister_venv,      \* how the project lister ended ("none": not run)
    lister_global,    \* how the global lister ended ("none": not run)
    backup_result,    \* create_backup: "none", "raised", "true", "false"
    backup_on_disk,   \* the backup file exists on disk
    uninstall_invoked,\* pip uninstall was started (dry_run=False)
    removed,          \* names the uninstaller actually removed
    calls,            \* calls main() has made, in order
    output,           \* messages printed, in order
    exit_code         \* process exit status, -1 while running

vars == <<pc, installed, venv_packages, global_packages, requirements,
          safe_to_remove, keep, response, final_confirm, lister_venv,
          lister_global, backup_result, backup_on_disk, uninstall_invoked,
          removed, calls, output, exit_code>>

Msg(tag, pkgs) == [tag |-> tag, pkgs |-> pkgs]

Tags == {output[i].tag : i \in DOMAIN output}

(* -------------------------- pure functions ----------------------------- *)
\* get_packages: exe_ok is the python.exe check of the venv branch (TRUE for
\* the global branch); how/raw are the lister's ending and its names.
get_packages_reraise(exe_ok, how, raw) ==
    IF ~exe_ok \/ how # "ok"
    THEN [raised |-> TRUE, value |-> {}]
    ELSE [raised |-> FALSE, value |-> LowerAll(raw)]

get_packages(exe_ok, how, raw) ==
    IF ~exe_ok THEN [raised |-> TRUE, value |-> {}]
    ELSE IF how = "ok" THEN [raised |-> FALSE, value |-> LowerAll(raw)]
    ELSE IF how \in {"nonzero", "unparseable"}
         THEN [raised |-> FALSE, value |-> {}]
    ELSE [raised |-> TRUE, value |-> {}]

\* load_requirements: a missing file gives the empty set; otherwise the bare
\* names of the lines, lowercased.
load_requirements(file_exists, names) ==
    IF ~file_exists THEN {} ELSE LowerAll(names)

identify_project_dependencies_no_common(g, v, r) ==
    {req \in r : req \in g}

identify_project_dependencies(g, v, r) ==
    {req \in r : req \in g}
    \cup {pkg \in (g \cap v) : pkg \notin ESSENTIAL_TOOLS}

\* Which set the loop body of identify_safe_to_remove puts pkg_name in:
\* "keep", "remove" or "none".
classify_no_essential(pkg_name, project_deps, v, r) ==
    IF Lower(pkg_name) \in CORE_PACKAGES THEN {"keep"}
    ELSE IF pkg_name \in project_deps /\ Lower(pkg_name) \in v THEN {"remove"}
    ELSE IF Lower(pkg_name) \in r /\ Lower(pkg_name) \in v THEN {"remove"}
    ELSE {}

classify_no_continue(pkg_name, project_deps, v, r) ==
    (IF Lower(pkg_name) \in CORE_PACKAGES \cup ESSENTIAL_TOOLS
     THEN {"keep"} ELSE {})
    \cup
    (IF \/ pkg_name \in project_deps /\ Lower(pkg_name) \in v
        \/ Lower(pkg_name) \in r /\ Lower(pkg_name) \in v
     THEN {"remove"} ELSE {})

classify(pkg_name, project_deps, v, r) ==
    IF Lower(pkg_name) \in CORE_PACKAGES THEN {"keep"}
    ELSE IF Lower(pkg_name) \in ESSENTIAL_TOOLS THEN {"keep"}
    ELSE IF pkg_name \in project_deps /\ Lower(pkg_name) \in v THEN {"remove"}
    ELSE IF Lower(pkg_name) \in r /\ Lower(pkg_name) \in v THEN {"remove"}
    ELSE {}

identify_safe_to_remove(g, v, r) ==
    LET project_deps == identify_project_dependencies(g, v, r)
    IN  [safe_to_remove |->
             {p \in g : "remove" \in classify(p, project_deps, v, r)},
         keep |->
             {p \in g : "keep" \in classify(p, project_deps, v, r)}]

\* create_backup, seen from main(): "raised" when open/write raises OSError,
\* otherwise the value of backup_path.exists() after the write.
BackupOutcomes == {"raised", "true", "false"}

\* How the pip uninstall subprocess can end.
UninstallOutcomes == {"ok", "fail", "interrupt"}

\* uninstall_packages(packages, dry_run=False): how the call ends for each
\* ending of the subprocess.
uninstall_packages_swallow(how) ==
    CASE how = "ok"        -> "return"
      [] how = "fail"      -> "return"
      [] how = "interrupt" -> "KeyboardInterrupt"

uninstall_packages(how) ==
    CASE how = "ok"        -> "return"
      [] how = "fail"      -> "SystemExit1"
      [] how = "interrupt" -> "KeyboardInterrupt"

\* The __main__ guard: exit status for each way main() can end.
main_guard_swallow(how) ==
    IF how = "SystemExit1" THEN 1 ELSE 0

main_guard(how) ==
    CASE how = "return"            -> 0
      [] how = "SystemExit0"       -> 0
      [] how = "SystemExit1"       -> 1
      [] how = "KeyboardInterrupt" -> 0
      [] how = "Exception"         -> 1

\* Messages the __main__ guard prints for each ending.
guard_output(how) ==
    CASE how = "KeyboardInterrupt" -> <<Msg("aborted_by_user", {})>>
      [] how = "Exception"         -> <<Msg("error", {})>>
      [] OTHER                     -> <<>>

\* main() ends: msgs are printed, then the guard decides the exit status.
Finish(how, msgs) ==
    /\ pc' = "done"
    /\ output' = output \o msgs \o guard_output(how)
    /\ exit_code' = main_guard(how)

(* ------------------------------- Init ---------------------------------- *)
Init ==
    /\ pc = "start"
    /\ installed \in UpTo(RawNames, MaxInstalled)
    /\ venv_packages = {}
    /\ global_packages = {}
    /\ requirements = {}
    /\ safe_to_remove = {}
    /\ keep = {}
    /\ response = "unset"
    /\ final_confirm = "unset"
    /\ lister_venv = "none"
    /\ lister_global = "none"
    /\ backup_result = "none"
    /\ backup_on_disk = FALSE
    /\ uninstall_invoked = FALSE
    /\ removed = {}
    /\ calls = <<>>
    /\ output = <<>>
    /\ exit_code = -1

(* ------------------------------ actions -------------------------------- *)
\* main, lines 176-187: does ./venv exist?
CheckVenv ==
    /\ pc = "start"
    /\ \E exists \in BOOLEAN :
         IF exists
         THEN /\ pc' = "list_venv"
              /\ output' = Append(output, Msg("found_venv", {}))
         ELSE /\ pc' = "ask_continue"
              /\ output' = Append(output, Msg("venv_not_found", {}))
    /\ UNCHANGED <<installed, venv_packages, global_packages, requirements,
                   safe_to_remove, keep, response, final_confirm,
                   lister_venv, lister_global, backup_result, backup_on_disk,
                   uninstall_invoked, removed, calls, exit_code>>

\* main, lines 179-183: "Continue anyway? (y/N)".
AskContinue ==
    /\ pc = "ask_continue"
    /\ \E r \in Responses :
         /\ response' = r
         /\ calls' = Append(calls, "input_continue")
         /\ IF Lower(r) # "y"
            THEN Finish("SystemExit0", <<Msg("aborted", {})>>)
            ELSE /\ pc' = "list_global"
                 /\ UNCHANGED <<output, exit_code>>
    /\ venv_packages' = {}
    /\ UNCHANGED <<installed, global_packages, requirements, safe_to_remove,
                   keep, final_confirm, lister_venv, lister_global,
                   backup_result, backup_on_disk, uninstall_invoked, removed>>

\* main, line 186: venv_packages = get_packages(venv_path).
ListVenv ==
    /\ pc = "list_venv"
    /\ \E exe_ok \in BOOLEAN, how \in ListerOutcomes,
          raw \in UpTo(RawNames, MaxInstalled) :
         LET res == get_packages(exe_ok, how, raw) IN
         /\ lister_venv' = IF exe_ok THEN how ELSE "none"
         /\ calls' = Append(calls, "get_packages_venv")
         /\ IF res.raised
            THEN /\ Finish("Exception", <<>>)
                 /\ UNCHANGED venv_packages
            ELSE /\ venv_packages' = res.value
                 /\ pc' = "list_global"
                 /\ output' = Append(output, Msg("venv_count", {}))
                 /\ UNCHANGED exit_code
    /\ UNCHANGED <<installed, global_packages, requirements, safe_to_remove,
                   keep, response, final_confirm, lister_global,
                   backup_result, backup_on_disk, uninstall_invoked, removed>>

\* main, line 191: global_packages = get_packages().
ListGlobal ==
    /\ pc = "list_global"
    /\ \E how \in ListerOutcomes :
         LET res == get_packages(TRUE, how, installed) IN
         /\ lister_global' = how
         /\ calls' = Append(calls, "get_packages_global")
         /\ IF res.raised
            THEN /\ Finish("Exception", <<Msg("analyzing_global", {})>>)
                 /\ UNCHANGED global_packages
            ELSE /\ global_packages' = res.value
                 /\ pc' = "load_requirements"
                 /\ output' = output \o <<Msg("analyzing_global", {}),
                                           Msg("global_count", {})>>
                 /\ UNCHANGED exit_code
    /\ UNCHANGED <<installed, venv_packages, requirements, safe_to_remove,
                   keep, response, final_confirm, lister_venv,
                   backup_result, backup_on_disk, uninstall_invoked, removed>>

\* main, lines 195-197: requirements = load_requirements().
LoadRequirements ==
    /\ pc = "load_requirements"
    /\ \E file_exists \in BOOLEAN, names \in UpTo(RawNames, MaxDeclared) :
         LET req == load_requirements(file_exists, names) IN
         /\ requirements' = req
         /\ output' = IF req # {}
                      THEN Append(output, Msg("loaded_requirements", {}))
                      ELSE output
    /\ calls' = Append(calls, "load_requirements")
    /\ pc' = "classify"
    /\ UNCHANGED <<installed, venv_packages, global_packages, safe_to_remove,
                   keep, response, final_confirm, lister_venv, lister_global,
                   backup_result, backup_on_disk, uninstall_invoked, removed,
                   exit_code>>

\* main, lines 200-222: classify, display, return when nothing is removable.
Classify ==
    /\ pc = "classify"
    /\ LET res == identify_safe_to_remove(global_packages, venv_packages,
                                          requirements) IN
         /\ safe_to_remove' = res.safe_to_remove
         /\ keep' = res.keep
         /\ IF res.safe_to_remove = {}
            THEN Finish("return", <<Msg("analysis_results", {}),
                                    Msg("looks_clean", {})>>)
            ELSE /\ pc' = "preview"
                 /\ output' = output \o
                        <<Msg("analysis_results", {}),
                          Msg("safe_to_remove", res.safe_to_remove)>>
                 /\ UNCHANGED exit_code
    /\ calls' = Append(calls, "identify_safe_to_remove")
    /\ UNCHANGED <<installed, venv_packages, global_packages, requirements,
                   response, final_confirm, lister_venv, lister_global,
                   backup_result, backup_on_disk, uninstall_invoked, removed>>

\* main, line 234: uninstall_packages(safe_to_remove, dry_run=True).
Preview ==
    /\ pc = "preview"
    /\ calls' = Append(calls, "uninstall_packages_dry_run")
    /\ output' = Append(output, Msg("would_uninstall", safe_to_remove))
    /\ pc' = "ask_backup"
    /\ UNCHANGED <<installed, venv_packages, global_packages, requirements,
                   safe_to_remove, keep, response, final_confirm,
                   lister_venv, lister_global, backup_result, backup_on_disk,
                   uninstall_invoked, removed, exit_code>>

\* main, lines 238-242: "Create backup and uninstall these packages? (y/N)".
AskBackup_skip_backup ==
    /\ pc = "ask_backup"
    /\ \E r \in Responses :
         /\ response' = r
         /\ IF Lower(r) # "y"
            THEN Finish("return", <<Msg("aborted_none_uninstalled", {})>>)
            ELSE /\ pc' = "ask_final"
                 /\ UNCHANGED <<output, exit_code>>
    /\ calls' = Append(calls, "input_backup")
    /\ UNCHANGED <<installed, venv_packages, global_packages, requirements,
                   safe_to_remove, keep, final_confirm, lister_venv,
                   lister_global, backup_result, backup_on_disk,
                   uninstall_invoked, removed>>

AskBackup ==
    /\ pc = "ask_backup"
    /\ \E r \in Responses :
         /\ response' = r
         /\ IF Lower(r) # "y"
            THEN Finish("return", <<Msg("aborted_none_uninstalled", {})>>)
            ELSE /\ pc' = "backup"
                 /\ UNCHANGED <<output, exit_code>>
    /\ calls' = Append(calls, "input_backup")
    /\ UNCHANGED <<installed, venv_packages, global_packages, requirements,
                   safe_to_remove, keep, final_confirm, lister_venv,
                   lister_global, backup_result, backup_on_disk,
                   uninstall_invoked, removed>>

\* main, lines 245-248: create_backup(global_packages, backup_file).
CreateBackup ==
    /\ pc = "backup"
    /\ \E res \in BackupOutcomes, partial \in BOOLEAN :
         /\ backup_result' = res
         /\ IF res = "raised"
            THEN /\ backup_on_disk' = partial
                 /\ Finish("Exception", <<Msg("creating_backup", {})>>)
            ELSE /\ backup_on_disk' = (res = "true")
                 /\ pc' = "ask_final"
                 /\ output' = output \o
                        <<Msg("creating_backup", {}),
                          Msg("backup_created", global_packages)>> \o
                        (IF res = "true"
                         THEN <<Msg("backup_saved", {})>> ELSE <<>>)
                 /\ UNCHANGED exit_code
    /\ calls' = Append(calls, "create_backup")
    /\ UNCHANGED <<installed, venv_packages, global_packages, requirements,
                   safe_to_remove, keep, response, final_confirm,
                   lister_venv, lister_global, uninstall_invoked, removed>>

\* main, lines 251-257: "Type 'yes' to confirm".
AskFinal_ignore_answer ==
    /\ pc = "ask_final"
    /\ \E r \in Responses : final_confirm' = r
    /\ pc' = "uninstall"
    /\ output' = Append(output, Msg("about_to_uninstall", {}))
    /\ calls' = Append(calls, "input_final")
    /\ UNCHANGED <<installed, venv_packages, global_packages, requirements,
                   safe_to_remove, keep, response, lister_venv,
                   lister_global, backup_result, backup_on_disk,
                   uninstall_invoked, removed, exit_code>>

AskFinal ==
    /\ pc = "ask_final"
    /\ \E r \in Responses :
         /\ final_confirm' = r
         /\ IF Lower(r) # "yes"
            THEN Finish("return", <<Msg("about_to_uninstall", {}),
                                    Msg("aborted_none_uninstalled", {})>>)
            ELSE /\ pc' = "uninstall"
                 /\ output' = Append(output, Msg("about_to_uninstall", {}))
                 /\ UNCHANGED exit_code
    /\ calls' = Append(calls, "input_final")
    /\ UNCHANGED <<installed, venv_packages, global_packages, requirements,
                   safe_to_remove, keep, response, lister_venv,
                   lister_global, backup_result, backup_on_disk,
                   uninstall_invoked, removed>>

\* main, lines 260-265: uninstall_packages(safe_to_remove, dry_run=False).
\* The subprocess removes rem: everything when it succeeds, less than
\* everything when it fails or is interrupted.
Uninstall ==
    /\ pc = "uninstall"
    /\ \E how \in UninstallOutcomes, rem \in SUBSET safe_to_remove :
         LET ending == uninstall_packages(how) IN
         /\ (how = "ok") => (rem = safe_to_remove)
         /\ (how = "fail") => (rem # safe_to_remove)
         /\ removed' = rem
         /\ installed' = {n \in installed : Lower(n) \notin rem}
         /\ Finish(ending,
                   <<Msg("uninstalling", {})>> \o
                   (IF how = "ok"
                    THEN <<Msg("uninstalled_count", {})>> ELSE <<>>) \o
                   (IF how = "fail"
                    THEN <<Msg("uninstall_error", safe_to_remove)>>
                    ELSE <<>>) \o
                   (IF ending = "return"
                    THEN <<Msg("cleanup_complete", {}),
                           Msg("backup_saved", {})>>
                    ELSE <<>>))
    /\ uninstall_invoked' = TRUE
    /\ calls' = Append(calls, "uninstall_packages")
    /\ UNCHANGED <<venv_packages, global_packages, requirements,
                   safe_to_remove, keep, response, final_confirm,
                   lister_venv, lister_global, backup_result,
                   backup_on_disk>>

\* __main__, lines 271-273: Ctrl-C while main() is between two steps.
KeyboardInterrupt ==
    /\ pc # "done"
    /\ Finish("KeyboardInterrupt", <<>>)
    /\ UNCHANGED <<installed, venv_packages, global_packages, requirements,
                   safe_to_remove, keep, response, final_confirm,
                   lister_venv, lister_global, backup_result, backup_on_disk,
                   uninstall_invoked, removed, calls>>

\* __main__, lines 274-276: input() raises EOFError (stdin closed).
InputEOF ==
    /\ pc \in {"ask_continue", "ask_backup", "ask_final"}
    /\ Finish("Exception", <<>>)
    /\ UNCHANGED <<installed, venv_packages, global_packages, requirements,
                   safe_to_remove, keep, response, final_confirm,
                   lister_venv, lister_global, backup_result, backup_on_disk,
                   uninstall_invoked, removed, calls>>

Next ==
    \/ CheckVenv
    \/ AskContinue
    \/ ListVenv
    \/ ListGlobal
    \/ LoadRequirements
    \/ Classify
    \/ Preview
    \/ AskBackup
    \/ CreateBackup
    \/ AskFinal
    \/ Uninstall
    \/ KeyboardInterrupt
    \/ InputEOF

Spec == Init /\ [][Next]_vars

(* --------------------------- claim vocabulary -------------------------- *)
Called == {calls[i] : i \in DOMAIN calls}

IsPrefix(s, t) == Len(s) <= Len(t) /\ \A i \in DOMAIN s : s[i] = t[i]

Protected == CORE_PACKAGES \cup ESSENTIAL_TOOLS

Classified == "identify_safe_to_remove" \in Called

Interrupted == "aborted_by_user" \in Tags

ListingFailures == {"nonzero", "unparseable"}

\* The prompt whose answer was not the affirmative one.
DeclinedContinue ==
    /\ "input_continue" \in Called
    /\ "input_backup" \notin Called
    /\ Lower(response) # "y"

DeclinedBackup == "input_backup" \in Called /\ Lower(response) # "y"

DeclinedFinal == "input_final" \in Called /\ Lower(final_confirm) # "yes"

UninstallFailed == "uninstall_error" \in Tags

\* The calls of a run that reaches removal, and of a run without ./venv.
RemovalPath ==
    <<"get_packages_venv", "get_packages_global", "load_requirements",
      "identify_safe_to_remove", "uninstall_packages_dry_run",
      "input_backup", "create_backup", "input_final", "uninstall_packages">>

NoVenvPath ==
    <<"input_continue", "get_packages_global", "load_requirements",
      "identify_safe_to_remove">>

(* -------------------------------- claims ------------------------------- *)
\* C1: the uninstall step is reached only with create_backup having returned
\* with the backup file verified present on disk, and with both affirmative
\* confirmations ('y' and 'yes') given.
C1_UninstallOnlyAfterVerifiedBackup ==
    (pc = "uninstall" \/ uninstall_invoked) =>
        /\ backup_result = "true"
        /\ backup_on_disk
        /\ Lower(response) = "y"
        /\ Lower(final_confirm) = "yes"

\* C2: when the backup write fails, the uninstaller is never invoked and the
\* process has exited with a non-zero status.
C2_BackupFailureIsFatal ==
    (backup_result = "raised") =>
        /\ ~uninstall_invoked
        /\ removed = {}
        /\ pc = "done"
        /\ exit_code \notin {-1, 0}

C2_Witness == backup_result = "raised" /\ pc = "done"

\* C3: every global package named in CORE_PACKAGES or ESSENTIAL_TOOLS is in
\* keep and not in safe_to_remove, whatever the project set and the declared
\* dependencies contain.
C3_ProtectedAlwaysKept ==
    Classified =>
        \A p \in global_packages :
            p \in Protected => (p \in keep /\ p \notin safe_to_remove)

C3_Witness ==
    /\ Classified
    /\ \E p \in global_packages \cap CORE_PACKAGES :
           p \in venv_packages /\ p \in requirements
    /\ \E p \in global_packages \cap (ESSENTIAL_TOOLS \ CORE_PACKAGES) :
           p \in venv_packages /\ p \in requirements

\* C4: safe_to_remove and keep are disjoint, and safe_to_remove holds only
\* keys of the global package set.
C4_DisjointAndGlobal ==
    /\ safe_to_remove \cap keep = {}
    /\ safe_to_remove \subseteq global_packages

C4_Witness == Classified /\ safe_to_remove # {} /\ keep # {}

\* C5 (as stated): a non-affirmative answer at any of the three prompts ends
\* the run with exit code 0, the uninstaller never invoked and nothing
\* changed by the run; declining the first prompt ends it before the global
\* environment is listed or classified.
C5_DeclineChangesNothing ==
    (DeclinedContinue \/ DeclinedBackup \/ DeclinedFinal) =>
        /\ pc = "done"
        /\ exit_code = 0
        /\ ~uninstall_invoked
        /\ removed = {}
        /\ ~backup_on_disk
        /\ DeclinedContinue =>
               (lister_global = "none" /\ ~Classified)

\* C5 (amended): a non-affirmative answer at any of the three prompts ends
\* the run with exit code 0, the uninstaller never invoked and no package
\* removed; no backup file has been written at the first two prompts, while
\* the final prompt comes after create_backup has run; declining the first
\* prompt ends the run before the global environment is listed or classified.
C5_DeclineRemovesNothing ==
    (DeclinedContinue \/ DeclinedBackup \/ DeclinedFinal) =>
        /\ pc = "done"
        /\ exit_code = 0
        /\ ~uninstall_invoked
        /\ removed = {}
        /\ ~DeclinedFinal => (backup_result = "none" /\ ~backup_on_disk)
        /\ DeclinedFinal => "create_backup" \in Called
        /\ DeclinedContinue =>
               (lister_global = "none" /\ ~Classified)

C5_Witness == DeclinedFinal /\ backup_on_disk /\ pc = "done"

\* C6 (as stated): on the path to removal the steps run in the order global
\* listing, project listing, manifest parsing, classification, dry-run
\* preview, backup, confirmation, removal.
C6_GlobalListedFirst ==
    uninstall_invoked =>
        SelectSeq(calls, LAMBDA c : c \notin {"input_backup"})
            = <<"get_packages_global", "get_packages_venv",
                "load_requirements", "identify_safe_to_remove",
                "uninstall_packages_dry_run", "create_backup",
                "input_final", "uninstall_packages">>

\* C6 (amended): the steps run in the order project listing, global listing,
\* manifest parsing, classification, dry-run preview, first confirmation,
\* backup, final confirmation, removal; a run never departs from that order
\* (or, without ./venv, from prompt, global listing, manifest parsing,
\* classification), and a run that removes has made every one of the steps.
C6_StepOrder ==
    /\ IsPrefix(calls, RemovalPath) \/ IsPrefix(calls, NoVenvPath)
    /\ uninstall_invoked => calls = RemovalPath

C6_Witness == uninstall_invoked /\ pc = "done" /\ removed = safe_to_remove

\* C7: when the uninstaller reports failure the run ends with exit status 1
\* and never prints that the cleanup is complete; exit status 0 comes only
\* with success, a user abort or a keyboard interrupt.
C7_ExitStatus ==
    /\ UninstallFailed =>
           (pc = "done" /\ exit_code = 1 /\ "cleanup_complete" \notin Tags)
    /\ exit_code = 0 =>
           \/ "cleanup_complete" \in Tags /\ ~UninstallFailed
           \/ "looks_clean" \in Tags
           \/ "aborted" \in Tags
           \/ "aborted_none_uninstalled" \in Tags
           \/ Interrupted

C7_Witness == UninstallFailed /\ pc = "done"

\* C8: when the uninstaller fails after removing some but not all of the
\* packages, some message of the run names exactly the removed packages.
C8_PartialRemovalReported ==
    (UninstallFailed /\ removed # {}) =>
        \E i \in DOMAIN output : output[i].pkgs = removed

\* C9: a lister that exits non-zero or prints unparseable output gives an
\* empty package set and does not end the run, for the project listing and
\* for the global listing; the run goes on to classification.
C9_ListingFailureDegrades ==
    /\ lister_venv \in ListingFailures =>
           /\ venv_packages = {}
           /\ (Len(calls) = 1 /\ ~Interrupted) =>
                  (pc = "list_global" /\ exit_code = -1)
           /\ (pc = "done" /\ ~Interrupted /\ lister_global # "badshape") =>
                  Classified
    /\ lister_global \in ListingFailures =>
           /\ global_packages = {}
           /\ exit_code # 1
           /\ (pc = "done" /\ ~Interrupted) => Classified

C9_Witness ==
    /\ lister_venv \in ListingFailures
    /\ lister_global \in ListingFailures
    /\ Classified

\* C10: the classification does not depend on the declared dependencies:
\* safe_to_remove is the global names also in the project set minus the
\* core and essential names, keep is the global names that are core or
\* essential, and every declared-dependency set gives the same pair.
C10_DeclaredIrrelevant ==
    Classified =>
        /\ safe_to_remove = (global_packages \cap venv_packages) \ Protected
        /\ keep = global_packages \cap Protected
        /\ \A r2 \in SUBSET LowerAll(RawNames) :
               identify_safe_to_remove(global_packages, venv_packages, r2)
                   = [safe_to_remove |-> safe_to_remove, keep |-> keep]

C10_Witness ==
    /\ Classified
    /\ \E p \in safe_to_remove : p \in requirements
    /\ \E p \in safe_to_remove : p \notin requirements

====
